---- MODULE Spec2Model ----
(***************************************************************************)
(* Model of the attendance terminal's two stateful components:             *)
(*   - Camera  (src/components/Camera.tsx, lines 172-363): the capture     *)
(*     session, i.e. the useEffect that acquires a device stream with a    *)
(*     constraint fallback, its cleanup, capture() and the manual retry;   *)
(*   - Scanner (src/components/Camera.tsx, lines 379-445): handleScan,     *)
(*     the single-flight scan cycle around the recognition service and     *)
(*     the attendance store (src/unnamed/part_002).                        *)
(*                                                                         *)
(* A React commit is one step: a prop or state change that alters the      *)
(* effect's dependencies [active, retryTrigger] re-renders, runs the       *)
(* previous effect's cleanup and then the new effect up to its first       *)
(* await; the state updates queued on the way are applied together.        *)
(***************************************************************************)
EXTENDS Integers, Sequences, FiniteSets, TLC

\* ---------------------------------------------------------------- bounds
MaxEffects == 3      \* effect runs (mount + toggles + retries) per Camera
MaxScans == 3        \* handleScan calls (clicks on the scan button)
MaxEmployees == 2    \* employees ever registered in the store
MaxRoster == 51      \* roster length when the gallery limit is examined

\* ------------------------------------------------------------- constants
NumProfiles == 3     \* constraintsSets: Plan A, Plan B, Plan C
NoStream == 0        \* null MediaStream; device streams are 1, 2, ...

PermissionNames == {"NotAllowedError", "PermissionDeniedError"}
RejectNames == PermissionNames \cup
               {"OverconstrainedError", "NotFoundError", "NotReadableError"}
Contexts == {"ok", "insecure", "unsupported"}

MsgDenied == "Access denied. Please allow camera permission."
MsgNotFound == "No camera device found."
MsgBusy == "Camera is busy (used by another app?) or inaccessible."
MsgSecure == "Camera requires a Secure Context (HTTPS or localhost)."
MsgUnsupported == "Camera API not supported in this browser."
MsgExhausted == "Could not initialize camera with any supported settings."
MsgUnknown == "Unknown camera error"

VARIABLES
  context,          \* what navigator.mediaDevices offers in this page
  camMounted,       \* the Camera component instance exists
  active,           \* prop active
  stream,           \* useState stream
  error,            \* useState error ("" = none)
  permissionDenied, \* useState permissionDenied
  retryTrigger,     \* useState retryTrigger
  effects,          \* one record per run of the effect (its closure)
  liveStreams,      \* device streams whose tracks have not been stopped
  nextStream,       \* identity of the next MediaStream the device hands out
  lastCapture,      \* observation of the last stand-alone capture() call
  lastReject        \* e.name of the last getUserMedia rejection

camVars == <<context, camMounted, active, stream, error, permissionDenied,
             retryTrigger, effects, liveStreams, nextStream, lastCapture,
             lastReject>>

VARIABLES
  apiKey,           \* process.env.API_KEY is defined
  svcBuild,         \* which identifyEmployeeWithGemini the bundle holds
  isProcessing,     \* Scanner useState isProcessing (the busy flag)
  lastResult,       \* Scanner useState lastResult
  pending,          \* handleScan calls suspended at the service await
  employees,        \* App useState employees, the Scanner's prop
  storeEmployees,   \* localStorage facetrack_employees
  refreshDue,       \* Registration timeouts that will call refreshData
  attendance,       \* localStorage facetrack_attendance
  scanAttempts,     \* handleScan calls so far
  scanCaptures,     \* capture() calls made by handleScan
  svcCalls,         \* identifyEmployeeWithGemini calls so far
  scanImage,        \* imageSrc of the last accepted handleScan call
  lastExit,         \* the path the last finished scan cycle left by
  lastResponse,     \* what the service call last settled with
  sentGallery       \* the references of the last request to the model

scanVars == <<apiKey, svcBuild, isProcessing, lastResult, pending, employees,
              storeEmployees, refreshDue, attendance, scanAttempts,
              scanCaptures, svcCalls, scanImage, lastExit, lastResponse,
              sentGallery>>

vars == <<camVars, scanVars>>

\* ------------------------------------------------------- Camera helpers
\* The error the outer catch of startCamera displays for a thrown value.
CatchMessage(err) ==
  IF err.name \in PermissionNames THEN MsgDenied
  ELSE IF err.name = "NotFoundError" THEN MsgNotFound
  ELSE IF err.name = "NotReadableError" THEN MsgBusy
  ELSE IF err.message # "" THEN err.message ELSE MsgUnknown

StartCameraKeepsError(act, err0, pd0) ==
  IF ~act
    THEN [pc |-> "inactive", profile |-> 0, error |-> err0,
          permissionDenied |-> pd0]
  ELSE IF context # "ok"
    THEN [pc |-> "failed", profile |-> 0,
          error |-> IF context = "insecure" THEN MsgSecure
                    ELSE MsgUnsupported,
          permissionDenied |-> FALSE]
  ELSE [pc |-> "pending", profile |-> 1, error |-> err0,
        permissionDenied |-> FALSE]

StartCameraSkipsContext(act, err0, pd0) ==
  IF ~act
    THEN [pc |-> "inactive", profile |-> 0, error |-> err0,
          permissionDenied |-> pd0]
  ELSE [pc |-> "pending", profile |-> 1, error |-> "",
        permissionDenied |-> FALSE]

\* startCamera up to its first await, run by a fresh effect closure.
\* err0 / pd0 are the error and permissionDenied states before the run.
StartCamera(act, err0, pd0) ==
  IF ~act
    THEN [pc |-> "inactive", profile |-> 0, error |-> err0,
          permissionDenied |-> pd0]
  ELSE IF context # "ok"
    THEN [pc |-> "failed", profile |-> 0,
          error |-> CatchMessage([name |-> "Error",
                     message |-> IF context = "insecure" THEN MsgSecure
                                 ELSE MsgUnsupported]),
          permissionDenied |-> FALSE]
  ELSE [pc |-> "pending", profile |-> 1, error |-> "",
        permissionDenied |-> FALSE]

\* A new effect closure: its locals and the render values it captured.
NewEffect(act, capturedStream, start) ==
  [isMounted |-> TRUE, currentStream |-> NoStream,
   capturedStream |-> capturedStream, act |-> act,
   pc |-> start.pc, profile |-> start.profile]

CleanupLeaksOwnStream(e) ==
  [effect |-> [e EXCEPT !.isMounted = FALSE],
   stopped |-> {e.capturedStream} \ {NoStream},
   stream |-> NoStream]

CleanupToggles(e) ==
  [effect |-> [e EXCEPT !.isMounted = ~e.isMounted],
   stopped |-> {e.currentStream, e.capturedStream} \ {NoStream},
   stream |-> NoStream]

CleanupKeepsStream(e) ==
  [effect |-> [e EXCEPT !.isMounted = FALSE],
   stopped |-> {e.currentStream, e.capturedStream} \ {NoStream},
   stream |-> stream]

\* The effect's cleanup function: the closure after it, the streams whose
\* tracks it stops, and the value it sets the stream state to.
Cleanup(e) ==
  [effect |-> [e EXCEPT !.isMounted = FALSE],
   stopped |-> {e.currentStream, e.capturedStream} \ {NoStream},
   stream |-> NoStream]

CurrentEffect == effects[Len(effects)]

\* Dependencies changed: cleanup of the previous run, then a new run.
RunEffect(act) ==
  LET c == Cleanup(CurrentEffect)
      start == StartCamera(act, error, permissionDenied)
  IN /\ effects' = Append([effects EXCEPT ![Len(effects)] = c.effect],
                          NewEffect(act, stream, start))
     /\ liveStreams' = liveStreams \ c.stopped
     /\ stream' = c.stream
     /\ error' = start.error
     /\ permissionDenied' = start.permissionDenied

\* "3. Mount Check": the closure's isMounted after the awaited acquisition.
MountCheckSkipped(e) == TRUE
MountCheck(e) == e.isMounted

\* "if (!isMounted) return" at the top of the outer catch.
CatchCheckSkipped(e) == TRUE
CatchCheck(e) == e.isMounted

\* The <video> element is rendered only when no error is displayed.
VideoMounted == error = ""

CaptureIgnoresStream(ctxOk) ==
  IF ~VideoMounted THEN "null"
  ELSE IF ~ctxOk THEN "null"
  ELSE "image"

\* capture(): null without a video element, a stream or a 2d context.
Capture(ctxOk) ==
  IF ~VideoMounted \/ stream = NoStream THEN "null"
  ELSE IF ~ctxOk THEN "null"
  ELSE "image"

\* ------------------------------------------------------ Scanner helpers
Absent == "<absent>"          \* a field the response JSON does not carry
ResponseIds == {Absent, "", "E1"}
ResponseNames == {Absent, "", "Jane Doe"}
Confidences == {20, 93}       \* confidence in hundredths
Responses == [match : BOOLEAN, employeeId : ResponseIds,
              name : ResponseNames, confidence : Confidences]
NoData == [match |-> FALSE, employeeId |-> Absent, name |-> Absent,
           confidence |-> 0]
NoResult == [present |-> FALSE, success |-> FALSE, message |-> <<>>,
             data |-> NoData]

\* geminiService.ts declares identifyEmployeeWithGemini twice: the first
\* lets every error bubble up to handleScan, the second catches every error
\* and returns a no-match fallback.  A bundle holds one of them.
ServiceBuilds == {"bubble", "fallback"}
Fallback == [match |-> FALSE, employeeId |-> Absent, name |-> Absent,
             confidence |-> 0]
NoResponse == [kind |-> "none", res |-> NoData, err |-> <<>>]

\* Error messages are token sequences, so that includes() can be computed.
ErrCapture == <<"Failed to capture image">>
ErrApiKey == <<"API Key", "is missing in environment variables.">>
ErrApiKeyShort == <<"API Key", "is missing">>
ErrEmpty == <<"Empty response from AI model.">>
ErrFormat == <<"Invalid response format from AI.">>
ErrQuota == <<"got status:", "429", "RESOURCE_EXHAUSTED">>
ErrTransport == <<"Failed to fetch">>
ServiceErrors == {ErrEmpty, ErrFormat, ErrQuota, ErrTransport}
ErrNoResponse == <<"No response from AI">>
ErrSyntax == <<"Unexpected token in JSON">>
FallbackErrors == {ErrNoResponse, ErrSyntax, ErrQuota, ErrTransport}

MsgNoEmployees == <<"No employees registered yet.">>
MsgNotRecognized ==
  <<"Face not recognized. Please try closer or check lighting.">>
MsgGeneric == <<"Error processing scan.">>
MsgNoKey == <<"System Error: API Key not found. Please add 'API_KEY' in Vercel Environment Variables.">>
MsgServiceBusy == <<"Service busy. Please try again in a moment.">>
MsgWelcome(name) == <<"Welcome, ", name, "!">>

\* String.prototype.includes on a message.
Includes(msg, needle) == \E k \in DOMAIN msg : msg[k] = needle

\* JavaScript truthiness of an optional string field.
Truthy(x) == x # Absent /\ x # ""

CatchResultSilent(msg) == NoResult

\* The catch block of handleScan: the result shown for a thrown error.
CatchResult(msg) ==
  [present |-> TRUE, success |-> FALSE,
   message |-> IF Includes(msg, "API Key") THEN MsgNoKey
               ELSE IF Includes(msg, "429") THEN MsgServiceBusy
               ELSE MsgGeneric,
   data |-> NoData]

IsMatchFlagOnly(res) == res.match
IsMatchIdOnly(res) == res.match /\ Truthy(res.employeeId)
IsMatchIgnoresFlag(res) == Truthy(res.employeeId) /\ Truthy(res.name)

\* The classification of the service's response.
IsMatch(res) == res.match /\ Truthy(res.employeeId) /\ Truthy(res.name)

NewRecordToggles(res, uuid, now) ==
  [id |-> uuid, employeeId |-> res.employeeId, employeeName |-> res.name,
   timestamp |-> now, confidence |-> res.confidence,
   type |-> IF \E k \in DOMAIN attendance :
                   attendance[k].employeeId = res.employeeId
              THEN "CHECK_OUT" ELSE "CHECK_IN"]

NewRecordSwapsFields(res, uuid, now) ==
  [id |-> uuid, employeeId |-> res.name, employeeName |-> res.employeeId,
   timestamp |-> now, confidence |-> res.confidence, type |-> "CHECK_IN"]

\* The AttendanceRecord handleScan builds for a match.
NewRecord(res, uuid, now) ==
  [id |-> uuid, employeeId |-> res.employeeId, employeeName |-> res.name,
   timestamp |-> now, confidence |-> res.confidence, type |-> "CHECK_IN"]

\* Array.prototype.slice(-n): the last n elements, all if there are fewer.
SliceLast(s, n) ==
  SubSeq(s, (IF Len(s) > n THEN Len(s) - n ELSE 0) + 1, Len(s))

\* The slice each declaration of identifyEmployeeWithGemini takes.
GalleryLimit(build) == IF build = "bubble" THEN 50 ELSE 10

RecentEmployeesOldest(roster, build) ==
  SubSeq(roster, 1, IF Len(roster) > GalleryLimit(build)
                      THEN GalleryLimit(build) ELSE Len(roster))

\* recentEmployees: the part of the roster that is sent as references.
RecentEmployees(roster, build) == SliceLast(roster, GalleryLimit(build))

SaveAttendanceRecordFirst(records, record) == <<record>> \o records

\* saveAttendanceRecord: read the list, push, write it back.
SaveAttendanceRecord(records, record) == Append(records, record)

\* saveEmployee: read the roster, push, write it back.
SaveEmployeeTo(roster, employee) == Append(roster, employee)


\* ------------------------------------------------------------------ Init
CamInit ==
  /\ context \in Contexts
  /\ camMounted = TRUE
  /\ active \in BOOLEAN
  /\ stream = NoStream
  /\ retryTrigger = 0
  /\ LET start == StartCamera(active, "", FALSE)
     IN /\ effects = <<NewEffect(active, NoStream, start)>>
        /\ error = start.error
        /\ permissionDenied = start.permissionDenied
  /\ liveStreams = {}
  /\ nextStream = 1
  /\ lastCapture = [called |-> FALSE, hadStream |-> FALSE, result |-> "null"]
  /\ lastReject = "none"

\* The Scanner, the App roster and the store before the first scan.
ScannerInit ==
  /\ isProcessing = FALSE
  /\ lastResult = NoResult
  /\ pending = 0
  /\ employees = storeEmployees
  /\ refreshDue = 0
  /\ attendance = <<>>
  /\ scanAttempts = 0
  /\ scanCaptures = 0
  /\ scanImage = "none"
  /\ svcCalls = 0
  /\ lastExit = "none"
  /\ lastResponse = NoResponse
  /\ sentGallery = <<>>

\* A Camera in a page with a configured key and an empty roster.
Init ==
  /\ apiKey = TRUE
  /\ svcBuild = "bubble"
  /\ storeEmployees = <<>>
  /\ CamInit
  /\ ScannerInit

\* -------------------------------------------------------- Camera actions
\* The parent re-renders Camera with a different active prop.
SetActive(b) ==
  /\ camMounted
  /\ b # active
  /\ Len(effects) < MaxEffects
  /\ active' = b
  /\ RunEffect(b)
  /\ UNCHANGED <<context, camMounted, retryTrigger, nextStream, lastCapture,
                 lastReject>>
  /\ UNCHANGED scanVars

ManualRetryNoRerun ==
  /\ camMounted
  /\ Len(effects) < MaxEffects
  /\ retryTrigger < MaxEffects
  /\ retryTrigger' = retryTrigger + 1
  /\ UNCHANGED <<effects, liveStreams, stream, error, permissionDenied>>
  /\ UNCHANGED <<context, camMounted, active, nextStream, lastCapture,
                 lastReject>>
  /\ UNCHANGED scanVars

\* handleManualRetry: setRetryTrigger(prev => prev + 1).
ManualRetry ==
  /\ camMounted
  /\ Len(effects) < MaxEffects
  /\ retryTrigger' = retryTrigger + 1
  /\ RunEffect(active)
  /\ UNCHANGED <<context, camMounted, active, nextStream, lastCapture,
                 lastReject>>
  /\ UNCHANGED scanVars

AcquireResolveNoInstall(i) ==
  /\ i \in DOMAIN effects
  /\ effects[i].pc = "pending"
  /\ nextStream' = nextStream + 1
  /\ IF MountCheck(effects[i])
       THEN /\ effects' = [effects EXCEPT ![i].currentStream = nextStream,
                                          ![i].pc = "installed"]
            /\ liveStreams' = liveStreams \cup {nextStream}
            /\ stream' = stream
       ELSE /\ effects' = [effects EXCEPT ![i].currentStream = nextStream,
                                          ![i].pc = "released"]
            /\ liveStreams' = liveStreams
            /\ stream' = stream
  /\ UNCHANGED <<context, camMounted, active, error, permissionDenied,
                 retryTrigger, lastCapture, lastReject>>
  /\ UNCHANGED scanVars

AcquireResolveKeepsLate(i) ==
  /\ i \in DOMAIN effects
  /\ effects[i].pc = "pending"
  /\ nextStream' = nextStream + 1
  /\ IF MountCheck(effects[i])
       THEN /\ effects' = [effects EXCEPT ![i].currentStream = nextStream,
                                          ![i].pc = "installed"]
            /\ liveStreams' = liveStreams \cup {nextStream}
            /\ stream' = nextStream
       ELSE /\ effects' = [effects EXCEPT ![i].currentStream = nextStream,
                                          ![i].pc = "released"]
            /\ liveStreams' = liveStreams \cup {nextStream}
            /\ stream' = stream
  /\ UNCHANGED <<context, camMounted, active, error, permissionDenied,
                 retryTrigger, lastCapture, lastReject>>
  /\ UNCHANGED scanVars

\* getUserMedia of run i resolves: break, mount check, install.
AcquireResolve(i) ==
  /\ i \in DOMAIN effects
  /\ effects[i].pc = "pending"
  /\ nextStream' = nextStream + 1
  /\ IF MountCheck(effects[i])
       THEN /\ effects' = [effects EXCEPT ![i].currentStream = nextStream,
                                          ![i].pc = "installed"]
            /\ liveStreams' = liveStreams \cup {nextStream}
            /\ stream' = nextStream
       ELSE /\ effects' = [effects EXCEPT ![i].currentStream = nextStream,
                                          ![i].pc = "released"]
            /\ liveStreams' = liveStreams
            /\ stream' = stream
  /\ UNCHANGED <<context, camMounted, active, error, permissionDenied,
                 retryTrigger, lastCapture, lastReject>>
  /\ UNCHANGED scanVars

\* The outer catch of run i for the thrown value err.
CatchOuter(i, err) ==
  IF CatchCheck(effects[i])
    THEN /\ effects' = [effects EXCEPT ![i].pc = "failed"]
         /\ error' = CatchMessage(err)
         /\ permissionDenied' = IF err.name \in PermissionNames THEN TRUE
                                ELSE permissionDenied
    ELSE /\ effects' = [effects EXCEPT ![i].pc = "dropped"]
         /\ UNCHANGED <<error, permissionDenied>>

\* The inner catch of the constraints loop: a permission error is rethrown.
RethrownLegacyOnly(name) == name = "PermissionDeniedError"
Rethrown(name) == name \in PermissionNames

RejectStepNoFallback(i, name) ==
  /\ i \in DOMAIN effects
  /\ effects[i].pc = "pending"
  /\ IF Rethrown(name)
       THEN CatchOuter(i, [name |-> name, message |-> "denied"])
     ELSE CatchOuter(i, [name |-> "Error", message |-> MsgExhausted])
  /\ UNCHANGED <<context, camMounted, active, stream, retryTrigger,
                 liveStreams, nextStream, lastCapture>>
  /\ UNCHANGED scanVars

RejectStepWrapsAround(i, name) ==
  /\ i \in DOMAIN effects
  /\ effects[i].pc = "pending"
  /\ IF Rethrown(name)
       THEN CatchOuter(i, [name |-> name, message |-> "denied"])
     ELSE /\ effects' = [effects EXCEPT
                           ![i].profile = IF @ < NumProfiles THEN @ + 1
                                          ELSE 1]
          /\ UNCHANGED <<error, permissionDenied>>
  /\ UNCHANGED <<context, camMounted, active, stream, retryTrigger,
                 liveStreams, nextStream, lastCapture>>
  /\ UNCHANGED scanVars

\* The constraints loop of run i when getUserMedia rejects with a
\* DOMException called name: rethrow, next profile, or exhaustion.
RejectStep(i, name) ==
  /\ i \in DOMAIN effects
  /\ effects[i].pc = "pending"
  /\ IF Rethrown(name)
       THEN CatchOuter(i, [name |-> name, message |-> "denied"])
     ELSE IF effects[i].profile < NumProfiles
       THEN /\ effects' = [effects EXCEPT ![i].profile = @ + 1]
            /\ UNCHANGED <<error, permissionDenied>>
     ELSE CatchOuter(i, [name |-> "Error", message |-> MsgExhausted])
  /\ UNCHANGED <<context, camMounted, active, stream, retryTrigger,
                 liveStreams, nextStream, lastCapture>>
  /\ UNCHANGED scanVars

\* getUserMedia of run i rejects with a DOMException called name.
AcquireReject(i, name) ==
  /\ RejectStep(i, name)
  /\ UNCHANGED lastReject

\* The same rejection, with the name the device gave kept for inspection.
AcquireRejectNamed(i, name) ==
  /\ RejectStep(i, name)
  /\ lastReject' = name

\* The component is discarded: React runs the last effect's cleanup.
Unmount ==
  /\ camMounted
  /\ camMounted' = FALSE
  /\ LET c == Cleanup(CurrentEffect)
     IN /\ effects' = [effects EXCEPT ![Len(effects)] = c.effect]
        /\ liveStreams' = liveStreams \ c.stopped
        /\ stream' = c.stream
  /\ UNCHANGED <<context, active, error, permissionDenied, retryTrigger,
                 nextStream, lastCapture, lastReject>>
  /\ UNCHANGED scanVars

DoCaptureClearsError(ctxOk) ==
  /\ camMounted
  /\ lastCapture' = [called |-> TRUE, hadStream |-> stream # NoStream,
                     result |-> Capture(ctxOk)]
  /\ error' = ""
  /\ UNCHANGED <<context, camMounted, active, stream,
                 permissionDenied, retryTrigger, effects, liveStreams,
                 nextStream, lastReject>>
  /\ UNCHANGED scanVars

\* A caller holding the ref calls capture().
DoCapture(ctxOk) ==
  /\ camMounted
  /\ lastCapture' = [called |-> TRUE, hadStream |-> stream # NoStream,
                     result |-> Capture(ctxOk)]
  /\ UNCHANGED <<context, camMounted, active, stream, error,
                 permissionDenied, retryTrigger, effects, liveStreams,
                 nextStream, lastReject>>
  /\ UNCHANGED scanVars

CamNext ==
  \/ \E b \in BOOLEAN : SetActive(b)
  \/ ManualRetry
  \/ \E i \in 1..MaxEffects : AcquireResolve(i)
  \/ \E i \in 1..MaxEffects, name \in RejectNames : AcquireReject(i, name)
  \/ Unmount
  \/ \E ctxOk \in BOOLEAN : DoCapture(ctxOk)

\* ------------------------------------------------------- Scanner actions
\* The guard of handleScan: no camera handle, or a cycle is in flight.
ScanRejectedNever == ~camMounted
ScanRejected == ~camMounted \/ isProcessing

\* handleScan from taking the lock to the await of the service call.
AwaitServiceUnlocked ==
  /\ isProcessing' = FALSE
  /\ lastResult' = NoResult
  /\ pending' = pending + 1
  /\ svcCalls' = svcCalls + 1
  /\ UNCHANGED lastExit
AwaitServiceKeepsResult ==
  /\ isProcessing' = TRUE
  /\ lastResult' = lastResult
  /\ pending' = pending + 1
  /\ svcCalls' = svcCalls + 1
  /\ UNCHANGED lastExit
AwaitService ==
  /\ isProcessing' = TRUE
  /\ lastResult' = NoResult
  /\ pending' = pending + 1
  /\ svcCalls' = svcCalls + 1
  /\ UNCHANGED lastExit

\* "if (!imageSrc)": capture() gave no image.
CaptureFailedNever(img) == FALSE
CaptureFailed(img) == img = "null"

\* "if (employees.length === 0)": the gallery prop is empty.
GalleryEmptyNever == FALSE
GalleryEmpty == Len(employees) = 0

ScanStepGalleryFirst(ctxOk) ==
  /\ scanAttempts < MaxScans
  /\ scanAttempts' = scanAttempts + 1
  /\ IF ScanRejected
       THEN UNCHANGED <<isProcessing, lastResult, pending, scanCaptures,
                        svcCalls, scanImage, lastExit>>
     ELSE /\ scanCaptures' = scanCaptures + 1
          /\ scanImage' = Capture(ctxOk)
          /\ IF GalleryEmpty
               THEN /\ lastResult' = [present |-> TRUE, success |-> FALSE,
                                      message |-> MsgNoEmployees,
                                      data |-> NoData]
                    /\ isProcessing' = FALSE
                    /\ lastExit' = "empty"
                    /\ UNCHANGED <<pending, svcCalls>>
             ELSE IF CaptureFailed(Capture(ctxOk))
               THEN /\ lastResult' = CatchResult(ErrCapture)
                    /\ isProcessing' = FALSE
                    /\ lastExit' = "capture"
                    /\ UNCHANGED <<pending, svcCalls>>
             ELSE AwaitService
  /\ UNCHANGED <<apiKey, svcBuild, employees, storeEmployees, refreshDue,
                 attendance, lastResponse>>
  /\ UNCHANGED camVars

\* handleScan up to its await of the recognition service (or its return).
ScanStep(ctxOk) ==
  /\ scanAttempts < MaxScans
  /\ scanAttempts' = scanAttempts + 1
  /\ IF ScanRejected
       THEN UNCHANGED <<isProcessing, lastResult, pending, scanCaptures,
                        svcCalls, scanImage, lastExit>>
     ELSE /\ scanCaptures' = scanCaptures + 1
          /\ scanImage' = Capture(ctxOk)
          /\ IF CaptureFailed(Capture(ctxOk))
               THEN /\ lastResult' = CatchResult(ErrCapture)
                    /\ isProcessing' = FALSE
                    /\ lastExit' = "capture"
                    /\ UNCHANGED <<pending, svcCalls>>
             ELSE IF GalleryEmpty
               THEN /\ lastResult' = [present |-> TRUE, success |-> FALSE,
                                      message |-> MsgNoEmployees,
                                      data |-> NoData]
                    /\ isProcessing' = FALSE
                    /\ lastExit' = "empty"
                    /\ UNCHANGED <<pending, svcCalls>>
             ELSE AwaitService
  /\ UNCHANGED <<apiKey, svcBuild, employees, storeEmployees, refreshDue,
                 attendance, lastResponse>>
  /\ UNCHANGED camVars

\* A click on the scan button.
HandleScan(ctxOk) ==
  /\ ScanStep(ctxOk)
  /\ UNCHANGED sentGallery

\* The same click, with the references the service builds for the request
\* kept for inspection; the first declaration throws before building them
\* when the key is missing.
HandleScanSent(ctxOk) ==
  /\ ScanStep(ctxOk)
  /\ sentGallery' = IF svcCalls' > svcCalls /\ apiKey
                      THEN RecentEmployees(employees, svcBuild)
                      ELSE sentGallery

\* handleScan after the await for the value res: classification (a match is
\* saved and onRecordAdded = App.refreshData re-reads the roster), finally.
Classify(res) ==
  /\ IF IsMatch(res)
       THEN /\ attendance' = SaveAttendanceRecord(attendance,
                               NewRecord(res, Len(attendance) + 1,
                                         scanAttempts))
            /\ lastResult' = [present |-> TRUE, success |-> TRUE,
                              message |-> MsgWelcome(res.name),
                              data |-> res]
            /\ employees' = storeEmployees
            /\ lastExit' = "match"
       ELSE /\ attendance' = attendance
            /\ employees' = employees
            /\ lastResult' = [present |-> TRUE, success |-> FALSE,
                              message |-> MsgNotRecognized, data |-> NoData]
            /\ lastExit' = "nomatch"
  /\ isProcessing' = FALSE

\* The awaited service call returns the model's answer res.
ServiceReturn(res) ==
  /\ pending > 0
  /\ apiKey
  /\ pending' = pending - 1
  /\ Classify(res)
  /\ lastResponse' = [kind |-> "return", res |-> res, err |-> <<>>]
  /\ UNCHANGED <<apiKey, svcBuild, storeEmployees, refreshDue,
                 scanAttempts, scanCaptures, svcCalls, scanImage,
                 sentGallery>>
  /\ UNCHANGED camVars

ServiceThrowKeepsLock(msg) ==
  /\ pending > 0
  /\ svcBuild = "bubble"
  /\ IF apiKey THEN msg \in ServiceErrors ELSE msg = ErrApiKey
  /\ pending' = pending - 1
  /\ lastResult' = CatchResult(msg)
  /\ lastExit' = "failure"
  /\ isProcessing' = isProcessing
  /\ lastResponse' = [kind |-> "throw", res |-> NoData, err |-> msg]
  /\ UNCHANGED <<apiKey, svcBuild, employees, storeEmployees, refreshDue,
                 attendance, scanAttempts, scanCaptures, svcCalls, scanImage,
                 sentGallery>>
  /\ UNCHANGED camVars

ServiceThrowRetries(msg) ==
  /\ pending > 0
  /\ svcBuild = "bubble"
  /\ IF apiKey THEN msg \in ServiceErrors ELSE msg = ErrApiKey
  /\ svcCalls < MaxScans
  /\ svcCalls' = svcCalls + 1
  /\ lastResponse' = [kind |-> "throw", res |-> NoData, err |-> msg]
  /\ UNCHANGED <<apiKey, svcBuild, employees, storeEmployees, refreshDue,
                 attendance, scanAttempts, scanCaptures, scanImage,
                 sentGallery, pending, lastResult, lastExit, isProcessing>>
  /\ UNCHANGED camVars

\* The awaited service call throws msg: catch, then finally.
ServiceThrow(msg) ==
  /\ pending > 0
  /\ svcBuild = "bubble"
  /\ IF apiKey THEN msg \in ServiceErrors ELSE msg = ErrApiKey
  /\ pending' = pending - 1
  /\ lastResult' = CatchResult(msg)
  /\ lastExit' = "failure"
  /\ isProcessing' = FALSE
  /\ lastResponse' = [kind |-> "throw", res |-> NoData, err |-> msg]
  /\ UNCHANGED <<apiKey, svcBuild, employees, storeEmployees, refreshDue,
                 attendance, scanAttempts, scanCaptures, svcCalls, scanImage,
                 sentGallery>>
  /\ UNCHANGED camVars

\* The service fails with msg inside the second identifyEmployeeWithGemini:
\* its catch logs the error and returns the fallback, which handleScan
\* classifies like any other answer.
ServiceFallback(msg) ==
  /\ pending > 0
  /\ svcBuild = "fallback"
  /\ IF apiKey THEN msg \in FallbackErrors ELSE msg = ErrApiKeyShort
  /\ pending' = pending - 1
  /\ Classify(Fallback)
  /\ lastResponse' = [kind |-> "fallback", res |-> Fallback, err |-> msg]
  /\ UNCHANGED <<apiKey, svcBuild, storeEmployees, refreshDue,
                 scanAttempts, scanCaptures, svcCalls, scanImage,
                 sentGallery>>
  /\ UNCHANGED camVars

\* Registration.handleSave: saveEmployee now, refreshData after a timeout.
SaveEmployee ==
  /\ Len(storeEmployees) < MaxEmployees
  /\ storeEmployees' = SaveEmployeeTo(storeEmployees,
                                      Len(storeEmployees) + 1)
  /\ refreshDue' = refreshDue + 1
  /\ UNCHANGED <<apiKey, svcBuild, isProcessing, lastResult, pending,
                 employees, attendance, scanAttempts, scanCaptures, svcCalls,
                 scanImage, lastExit, lastResponse, sentGallery>>
  /\ UNCHANGED camVars

\* The timeout fires: onEmployeeRegistered = App.refreshData.
RefreshData ==
  /\ refreshDue > 0
  /\ refreshDue' = refreshDue - 1
  /\ employees' = storeEmployees
  /\ UNCHANGED <<apiKey, svcBuild, isProcessing, lastResult, pending,
                 storeEmployees, attendance, scanAttempts, scanCaptures,
                 svcCalls, scanImage, lastExit, lastResponse, sentGallery>>
  /\ UNCHANGED camVars

Next == CamNext

Spec == Init /\ [][Next]_vars

\* The acquisition protocol alone, with each rejection's name recorded.
AcquireNext ==
  \/ \E b \in BOOLEAN : SetActive(b)
  \/ ManualRetry
  \/ \E i \in 1..MaxEffects : AcquireResolve(i)
  \/ \E i \in 1..MaxEffects, name \in RejectNames :
       AcquireRejectNamed(i, name)
  \/ Unmount

AcquireSpec == Init /\ [][AcquireNext]_vars

\* The promise of run i's getUserMedia call settles.
DeviceSettles(i) ==
  \/ AcquireResolve(i)
  \/ \E name \in RejectNames : AcquireReject(i, name)

SettleNext ==
  \/ \E b \in BOOLEAN : SetActive(b)
  \/ ManualRetry
  \/ \E i \in 1..MaxEffects : DeviceSettles(i)
  \/ Unmount

\* The Camera with a device that answers every request it is given.
SettleSpec ==
  /\ Init
  /\ [][SettleNext]_vars
  /\ \A i \in 1..MaxEffects : WF_vars(DeviceSettles(i))

\* The Scanner with the Camera it renders (active is the literal true).
ScanInit ==
  /\ apiKey \in BOOLEAN
  /\ svcBuild \in ServiceBuilds
  /\ storeEmployees \in {<<>>, <<1>>}
  /\ CamInit
  /\ active = TRUE
  /\ ScannerInit

ScanNext ==
  \/ \E ctxOk \in BOOLEAN : HandleScan(ctxOk)
  \/ \E res \in Responses : ServiceReturn(res)
  \/ \E msg \in ServiceErrors \cup {ErrApiKey} : ServiceThrow(msg)
  \/ \E msg \in ServiceErrors \cup {ErrApiKeyShort} : ServiceFallback(msg)
  \/ SaveEmployee
  \/ RefreshData
  \/ \E i \in 1..MaxEffects : AcquireResolve(i)
  \/ \E i \in 1..MaxEffects, name \in RejectNames : AcquireReject(i, name)

ScanSpec == ScanInit /\ [][ScanNext]_vars

\* The Scanner in front of a working camera, with a roster of any length
\* up to MaxRoster registered beforehand (employee k is the k-th saved).
GalleryInit ==
  /\ apiKey = TRUE
  /\ svcBuild \in ServiceBuilds
  /\ storeEmployees \in {[k \in 1..n |-> k] : n \in 0..MaxRoster}
  /\ CamInit
  /\ active = TRUE
  /\ context = "ok"
  /\ ScannerInit

GalleryNext ==
  \/ \E ctxOk \in BOOLEAN : HandleScanSent(ctxOk)
  \/ \E msg \in ServiceErrors : ServiceThrow(msg)
  \/ \E msg \in FallbackErrors : ServiceFallback(msg)
  \/ \E i \in 1..MaxEffects : AcquireResolve(i)

GallerySpec == GalleryInit /\ [][GalleryNext]_vars

\* ================================================================ claims

\* C1: after every settled transition (toggle, retry, completion, discard)
\* the session has no installed stream while active = false.
C1_NoStreamWhileInactive == ~active => stream = NoStream

\* A stream was installed by some run and the session was then deactivated.
C1_Witness ==
  /\ ~active
  /\ \E i \in DOMAIN effects : effects[i].pc = "installed"

\* C2: at most one scan cycle is in flight, and a handleScan call made while
\* the busy flag is set performs no capture, no service call, no store write
\* and changes neither the busy flag nor the last result.
C2_SingleFlight ==
  /\ [](pending <= 1)
  /\ [][(scanAttempts' # scanAttempts /\ isProcessing)
          => UNCHANGED <<isProcessing, lastResult, pending, attendance,
                         scanCaptures, svcCalls, employees,
                         storeEmployees>>]_vars

\* A call was issued and rejected while the first cycle is still pending.
C2_Witness ==
  /\ pending = 1
  /\ isProcessing
  /\ scanAttempts > scanCaptures

\* C3: a step appends an attendance record if and only if it is the service
\* call returning a response with match = true and a non-empty employee id
\* and name; the record appended carries that id and name.
C3_RecordIffMatch ==
  [][LET res == lastResponse'.res
         positive == /\ pending' < pending
                     /\ lastResponse'.kind = "return"
                     /\ res.match = TRUE
                     /\ res.employeeId \notin {Absent, ""}
                     /\ res.name \notin {Absent, ""}
     IN /\ (attendance' # attendance) <=> positive
        /\ positive =>
             /\ Len(attendance') = Len(attendance) + 1
             /\ SubSeq(attendance', 1, Len(attendance)) = attendance
             /\ attendance'[Len(attendance')].employeeId = res.employeeId
             /\ attendance'[Len(attendance')].employeeName = res.name]_vars

\* One record was appended by a match, and a later cycle that ended without
\* a match left the log as it was.
C3_Witness ==
  /\ Len(attendance) = 1
  /\ lastExit \in {"nomatch", "failure", "capture", "empty"}
  /\ pending = 0

\* C4: when an acquisition resolves for a run whose cleanup has already run,
\* the new stream is not installed and its tracks are stopped; every stream
\* that is still open belongs to the run that is currently mounted.
C4_LateStreamReleased ==
  /\ [](\A s \in liveStreams :
          \E i \in DOMAIN effects :
            effects[i].isMounted /\ effects[i].currentStream = s)
  /\ [][\A i \in DOMAIN effects :
          (/\ ~effects[i].isMounted
           /\ effects[i].currentStream = NoStream
           /\ effects'[i].currentStream # NoStream)
          => /\ stream' = stream
             /\ stream' # effects'[i].currentStream
             /\ effects'[i].currentStream \notin liveStreams']_vars

\* A run acquired its stream after its cleanup and left by the mount check.
C4_Witness ==
  \E i \in DOMAIN effects :
    /\ effects[i].pc = "released"
    /\ effects[i].currentStream # NoStream
    /\ effects[i].currentStream \notin liveStreams

\* C5: a step taken by a run that has been superseded (its cleanup ran)
\* changes neither the stream, nor the error, nor the permission-denied
\* state, whether the run's request resolves or rejects.
C5_SupersededDiscarded ==
  [][\A i \in DOMAIN effects :
       (~effects[i].isMounted /\ effects'[i] # effects[i])
       => /\ stream' = stream
          /\ error' = error
          /\ permissionDenied' = permissionDenied]_vars

\* One superseded run completed with a failure and another with a success.
C5_Witness ==
  \E i, j \in DOMAIN effects :
    /\ effects[i].pc = "dropped"
    /\ effects[j].pc = "released"

\* C6: a run whose cleanup has run starts no further getUserMedia request:
\* its constraint profile index never advances after teardown.
C6_NoAcquireAfterTeardown ==
  [][\A i \in DOMAIN effects :
       ~effects[i].isMounted => effects'[i].profile = effects[i].profile]_vars

\* C7: never both an installed stream and an error; an installed stream
\* implies active = true.
C7_StreamExcludesError ==
  /\ ~(stream # NoStream /\ error # "")
  /\ (stream # NoStream => active)

\* A stream is installed by a run that followed a run that set an error.
C7_Witness ==
  /\ stream # NoStream
  /\ \E i, j \in DOMAIN effects :
       i < j /\ effects[i].pc = "failed" /\ effects[j].pc = "installed"

\* C8: a capture() call made while no stream is installed returns null.
C8_CaptureNullWithoutStream ==
  (lastCapture.called /\ ~lastCapture.hadStream)
    => lastCapture.result = "null"

\* capture() was called on a session with a video element, a 2d context
\* available and an acquisition still pending, and returned null.
C8_Witness ==
  /\ lastCapture.called
  /\ ~lastCapture.hadStream
  /\ lastCapture.result = "null"
  /\ error = ""
  /\ CurrentEffect.pc = "pending"

\* C9: whenever no scan cycle is in flight the busy flag is false, whichever
\* path the last cycle left by, so the next handleScan call is accepted.
C9_LockReleased == pending = 0 => ~isProcessing

\* After a cycle ended in a service failure a further scan was accepted.
C9_Witness ==
  /\ lastExit = "failure"
  /\ pending = 1
  /\ svcCalls >= 2

\* C10: while the recognition-service call is pending the busy flag is true.
C10_BusyWhilePending == pending > 0 => isProcessing

\* A service call is pending.
C10_Witness == pending = 1 /\ isProcessing /\ ~lastResult.present

\* C11 (as stated): every accepted scan that runs with an empty gallery ends
\* with the "No employees registered yet." result, not with the capture
\* failure, and calls the service no further.
C11_EmptyGalleryAlways ==
  [][(scanCaptures' # scanCaptures /\ Len(employees) = 0)
       => /\ lastResult' = [present |-> TRUE, success |-> FALSE,
                            message |-> MsgNoEmployees, data |-> NoData]
          /\ svcCalls' = svcCalls]_vars

\* C11 (amended): an accepted scan that runs with an empty gallery and whose
\* capture() returned an image ends with success = false and the message
\* "No employees registered yet.", and makes no service call.
C11_EmptyGalleryAfterCapture ==
  [][(scanCaptures' # scanCaptures /\ Len(employees) = 0
        /\ scanImage' = "image")
       => /\ lastResult' = [present |-> TRUE, success |-> FALSE,
                            message |-> MsgNoEmployees, data |-> NoData]
          /\ svcCalls' = svcCalls
          /\ pending' = pending
          /\ ~isProcessing']_vars

\* A scan captured an image, found the gallery empty and ended.
C11_Witness ==
  /\ lastExit = "empty"
  /\ scanImage = "image"
  /\ lastResult.message = MsgNoEmployees
  /\ svcCalls = 0

\* C12: an accepted scan with a non-empty gallery whose capture() returns no
\* image ends with success = false and the message the catch block gives the
\* capture error, calls the service no further and appends no record.
C12_CaptureUnavailable ==
  [][(scanCaptures' # scanCaptures /\ Len(employees) > 0
        /\ scanImage' = "null")
       => /\ lastResult' = [present |-> TRUE, success |-> FALSE,
                            message |-> <<"Error processing scan.">>,
                            data |-> NoData]
          /\ svcCalls' = svcCalls
          /\ pending' = pending
          /\ attendance' = attendance]_vars

\* A scan with one employee in the gallery ended on the capture failure.
C12_Witness ==
  /\ lastExit = "capture"
  /\ scanImage = "null"
  /\ Len(employees) > 0
  /\ svcCalls = 0

\* C13: when the service returns match = false, whatever the confidence and
\* the other fields, the scan ends with success = false and the message
\* "Face not recognized...", and the attendance log is unchanged.
C13_NoMatch ==
  [][(pending' < pending /\ lastResponse'.kind = "return"
        /\ lastResponse'.res.match = FALSE)
       => /\ lastResult'.present
          /\ lastResult'.success = FALSE
          /\ lastResult'.message =
               <<"Face not recognized. Please try closer or check lighting.">>
          /\ attendance' = attendance]_vars

\* The service answered match = false although it named an employee.
C13_Witness ==
  /\ lastExit = "nomatch"
  /\ lastResponse.kind = "return"
  /\ lastResponse.res.match = FALSE
  /\ lastResponse.res.employeeId = "E1"
  /\ lastResponse.res.name = "Jane Doe"
  /\ attendance = <<>>

\* C14: when the service returns match = true with an employee id E, a name
\* N and a confidence c, exactly one record is appended, with employeeId E,
\* employeeName N and confidence c, and the scan ends with success = true,
\* the message "Welcome, N!" and the response as its data.
C14_MatchRecorded ==
  [][LET res == lastResponse'.res
     IN (pending' < pending /\ lastResponse'.kind = "return"
           /\ res.match = TRUE
           /\ res.employeeId \notin {Absent, ""}
           /\ res.name \notin {Absent, ""})
        => /\ Len(attendance') = Len(attendance) + 1
           /\ SubSeq(attendance', 1, Len(attendance)) = attendance
           /\ attendance'[Len(attendance')].employeeId = res.employeeId
           /\ attendance'[Len(attendance')].employeeName = res.name
           /\ attendance'[Len(attendance')].confidence = res.confidence
           /\ lastResult' = [present |-> TRUE, success |-> TRUE,
                             message |-> <<"Welcome, ", res.name, "!">>,
                             data |-> res]]_vars

\* The service matched E1 / Jane Doe at 0.93 and the record is in the log.
C14_Witness ==
  /\ lastExit = "match"
  /\ lastResult.success
  /\ Len(attendance) = 1
  /\ attendance[1].employeeId = "E1"
  /\ attendance[1].confidence = 93

\* C15: a run starts with Profile A; a rejection that is not a permission
\* refusal moves it to the next profile while one is left; the first
\* resolution ends the sequence at that profile, and for the mounted run it
\* installs the stream with no error recorded.
C15_ProfileFallback ==
  /\ [](\A i \in DOMAIN effects :
          effects[i].pc = "pending" => effects[i].profile \in 1..3)
  /\ [][/\ (Len(effects') > Len(effects)
              /\ effects'[Len(effects')].pc = "pending")
            => effects'[Len(effects')].profile = 1
        /\ \A i \in DOMAIN effects :
             LET e == effects[i]
                 f == effects'[i]
                 settled == /\ e.pc = "pending"
                            /\ f # e
                            /\ Len(effects') = Len(effects)
                            /\ camMounted' = camMounted
                 rejected == settled /\ nextStream' = nextStream
                 resolved == settled /\ nextStream' # nextStream
             IN /\ (/\ rejected
                    /\ lastReject' \notin {"NotAllowedError",
                                           "PermissionDeniedError"}
                    /\ e.profile < 3)
                   => /\ f.pc = "pending"
                      /\ f.profile = e.profile + 1
                      /\ stream' = stream
                      /\ error' = error
                /\ resolved
                   => /\ f.profile = e.profile
                      /\ f.pc \in {"installed", "released"}
                /\ (resolved /\ e.isMounted)
                   => /\ f.pc = "installed"
                      /\ stream' = f.currentStream
                      /\ stream' \in liveStreams'
                      /\ error' = ""
                      /\ ~permissionDenied']_vars

\* Profiles A and B were rejected, Profile C resolved: healthy session.
C15_Witness ==
  /\ Len(effects) = 1
  /\ effects[1].pc = "installed"
  /\ effects[1].profile = 3
  /\ lastReject = "OverconstrainedError"
  /\ stream # NoStream
  /\ stream \in liveStreams
  /\ error = ""

\* C16: a permission refusal on any profile ends the run at that profile: no
\* later profile is requested, and for the mounted run the error is the
\* access-denied one, permissionDenied is set and no stream is installed.
C16_PermissionAborts ==
  [][\A i \in DOMAIN effects :
       LET e == effects[i]
           f == effects'[i]
           rejected == /\ e.pc = "pending"
                       /\ f # e
                       /\ Len(effects') = Len(effects)
                       /\ camMounted' = camMounted
                       /\ nextStream' = nextStream
       IN /\ (rejected /\ lastReject' \in {"NotAllowedError",
                                            "PermissionDeniedError"})
             => /\ f.pc \in {"failed", "dropped"}
                /\ f.profile = e.profile
                /\ e.isMounted
                   => /\ f.pc = "failed"
                      /\ error' =
                           "Access denied. Please allow camera permission."
                      /\ permissionDenied'
                      /\ stream' = NoStream
          /\ e.pc \in {"failed", "dropped"}
             => (f.pc = e.pc /\ f.profile = e.profile)]_vars

\* Profile A was refused: the run failed at Profile A, permission denied.
C16_Witness ==
  /\ Len(effects) = 1
  /\ effects[1].pc = "failed"
  /\ effects[1].profile = 1
  /\ lastReject = "NotAllowedError"
  /\ permissionDenied
  /\ stream = NoStream

\* C17: a manual retry made while a stream is installed stops that stream
\* and starts a new acquisition from Profile A; the open streams are at all
\* times exactly the installed one, so the session that becomes healthy
\* again holds one live stream and none is left unreleased.
C17_RetryWhenHealthy ==
  /\ [](/\ liveStreams \subseteq {stream}
        /\ stream # NoStream => liveStreams = {stream})
  /\ [][(retryTrigger' = retryTrigger + 1 /\ stream # NoStream)
          => /\ stream \notin liveStreams'
             /\ liveStreams' = {}
             /\ stream' = NoStream
             /\ effects'[Len(effects')].pc = "pending"
             /\ effects'[Len(effects')].profile = 1
             /\ error' = ""]_vars

\* A healthy session was retried and is healthy again with one stream.
C17_Witness ==
  /\ Len(effects) = 2
  /\ retryTrigger = 1
  /\ effects[1].pc = "installed"
  /\ effects[2].pc = "installed"
  /\ stream = effects[2].currentStream
  /\ liveStreams = {stream}
  /\ error = ""

\* C18: when the awaited recognition service fails (missing credential,
\* quota, empty or malformed output, transport), handleScan ends normally
\* with a displayed result whose success is false and whose message is not
\* empty, writes no attendance record and releases the lock.
C18_FailureCaught ==
  [][(pending' < pending /\ lastResponse'.kind \in {"throw", "fallback"})
       => /\ lastResult'.present
          /\ ~lastResult'.success
          /\ lastResult'.message # <<>>
          /\ lastResult'.data = NoData
          /\ lastExit' \in {"failure", "nomatch"}
          /\ attendance' = attendance
          /\ ~isProcessing']_vars

\* A transport failure ended a scan of a non-empty gallery with a failure
\* result and no record.
C18_Witness ==
  /\ lastResponse.kind = "throw"
  /\ lastResponse.err = <<"Failed to fetch">>
  /\ Len(employees) > 0
  /\ lastResult.present
  /\ ~lastResult.success
  /\ lastResult.message = <<"Error processing scan.">>
  /\ attendance = <<>>
  /\ ~isProcessing

\* C19: a missing-credential failure, a quota failure and a malformed-output
\* failure each show the message of their own kind (API key not found,
\* service busy, error processing scan), so the three messages differ.
C19_KindSpecificMessage ==
  [][(pending' < pending /\ lastResponse'.kind \in {"throw", "fallback"})
       => LET err == lastResponse'.err
              shown == lastResult'.message
          IN /\ err \in {ErrApiKey, ErrApiKeyShort}
                => shown = <<"System Error: API Key not found. Please add 'API_KEY' in Vercel Environment Variables.">>
             /\ err = ErrQuota
                => shown = <<"Service busy. Please try again in a moment.">>
             /\ err \in {ErrFormat, ErrSyntax}
                => shown = <<"Error processing scan.">>]_vars

\* C20: a failure of the recognition service is never shown as the
\* "not recognized" outcome of a genuine match = false answer.
C20_FailureNotNoMatch ==
  [][(pending' < pending /\ lastResponse'.kind \in {"throw", "fallback"})
       => /\ lastResult'.message #
               <<"Face not recognized. Please try closer or check lighting.">>
          /\ lastExit' # "nomatch"]_vars

\* C21: when the last profile is rejected with an error that is not a
\* permission refusal, the mounted run ends with no stream and with the
\* device-busy error if that last rejection was NotReadableError, otherwise
\* with the no-device error (the exhaustion message or "No camera device
\* found.").
C21_ExhaustionError ==
  [][\A i \in DOMAIN effects :
       LET e == effects[i]
           f == effects'[i]
           exhausted == /\ e.pc = "pending"
                        /\ e.profile = 3
                        /\ f # e
                        /\ Len(effects') = Len(effects)
                        /\ camMounted' = camMounted
                        /\ nextStream' = nextStream
                        /\ lastReject' \notin {"NotAllowedError",
                                               "PermissionDeniedError"}
       IN (exhausted /\ e.isMounted)
          => /\ f.pc = "failed"
             /\ stream' = NoStream
             /\ IF lastReject' = "NotReadableError"
                  THEN error' =
                    "Camera is busy (used by another app?) or inaccessible."
                  ELSE error' \in
                    {"Could not initialize camera with any supported settings.",
                     "No camera device found."}]_vars

\* C22: in a page whose context offers no getUserMedia, every activation
\* fails at once with the secure-context or not-supported error: no profile
\* is ever requested, the device hands out no stream and none is installed.
C22_UnsupportedContext ==
  context # "ok"
  => /\ stream = NoStream
     /\ liveStreams = {}
     /\ nextStream = 1
     /\ \A i \in DOMAIN effects :
          /\ effects[i].profile = 0
          /\ effects[i].currentStream = NoStream
          /\ effects[i].pc = IF effects[i].act THEN "failed" ELSE "inactive"
     /\ CurrentEffect.act
        => /\ ~permissionDenied
           /\ error = IF context = "insecure"
                        THEN "Camera requires a Secure Context (HTTPS or localhost)."
                        ELSE "Camera API not supported in this browser."

\* The session was activated in a page without camera support and failed.
C22_Witness ==
  /\ context = "unsupported"
  /\ Len(effects) = 2
  /\ ~effects[1].act
  /\ effects[2].act
  /\ effects[2].pc = "failed"
  /\ error = "Camera API not supported in this browser."
  /\ stream = NoStream

\* C23: retryTrigger never decreases and changes only by one; the step that
\* increments it leaves active as it was, tears the previous run down and
\* starts a new run, which while active begins the protocol at step 1 (the
\* context check, then Profile A).
C23_RetryReruns ==
  [][/\ retryTrigger' \in {retryTrigger, retryTrigger + 1}
     /\ retryTrigger' = retryTrigger + 1
        => /\ active' = active
           /\ Len(effects') = Len(effects) + 1
           /\ ~effects'[Len(effects)].isMounted
           /\ effects'[Len(effects')].isMounted
           /\ effects'[Len(effects')].act = active
           /\ stream' = NoStream
           /\ active
              => IF context = "ok"
                   THEN /\ effects'[Len(effects')].pc = "pending"
                        /\ effects'[Len(effects')].profile = 1
                        /\ error' = ""
                        /\ ~permissionDenied'
                   ELSE /\ effects'[Len(effects')].pc = "failed"
                        /\ error' # ""]_vars

\* After a permission refusal a retry started a new acquisition although
\* active stayed true.
C23_Witness ==
  /\ retryTrigger = 1
  /\ active
  /\ Len(effects) = 2
  /\ effects[1].act
  /\ effects[1].pc = "failed"
  /\ effects[2].pc = "pending"
  /\ effects[2].profile = 1
  /\ error = ""
  /\ ~permissionDenied

\* C24: the references sent with a request are the last min(N, roster
\* length) entries of the roster the Scanner holds, in roster order, with
\* N = 50.
C24_GalleryLastFifty ==
  [][svcCalls' > svcCalls
       => LET n == Len(employees)
              k == IF n > 50 THEN 50 ELSE n
          IN /\ Len(sentGallery') = k
             /\ \A j \in 1..k : sentGallery'[j] = employees[n - k + j]]_vars

\* C24 (amended): the same, with N = 50 in the first declaration of
\* identifyEmployeeWithGemini and N = 10 in the second.
C24_GalleryLastN ==
  [][svcCalls' > svcCalls
       => LET n == Len(employees)
              limit == IF svcBuild = "bubble" THEN 50 ELSE 10
              k == IF n > limit THEN limit ELSE n
          IN /\ Len(sentGallery') = k
             /\ \A j \in 1..k : sentGallery'[j] = employees[n - k + j]]_vars

\* A roster of 51 was scanned: the request left the oldest employee out.
C24_Witness ==
  /\ svcBuild = "bubble"
  /\ Len(employees) = 51
  /\ svcCalls > 0
  /\ Len(sentGallery) = 50
  /\ sentGallery[1] = employees[2]
  /\ sentGallery[50] = employees[51]

\* C25: the service is called only by the handleScan call that starts a
\* cycle, once; the step on which the call settles (with a value or with a
\* failure) ends the cycle and makes no further call.
C25_NoServiceRetry ==
  /\ [](svcCalls <= scanCaptures /\ pending <= 1)
  /\ [][/\ svcCalls' \in {svcCalls, svcCalls + 1}
        /\ svcCalls' # svcCalls
           => (scanCaptures' = scanCaptures + 1 /\ pending' = pending + 1)
        /\ pending' < pending
           => /\ svcCalls' = svcCalls
              /\ pending' = 0
              /\ ~isProcessing'
              /\ lastResult'.present]_vars

\* Two cycles each called the service once and each call failed.
C25_Witness ==
  /\ lastResponse.kind = "throw"
  /\ lastExit = "failure"
  /\ scanCaptures = 2
  /\ svcCalls = 2
  /\ pending = 0

\* C26: every write to the attendance log keeps the records already there in
\* their order and puts one new record after them; the write is made by the
\* only cycle in flight, so the log is ordered by the time of the scans.
C26_AppendInCallOrder ==
  /\ [](\A i, j \in DOMAIN attendance :
          i < j => attendance[i].timestamp < attendance[j].timestamp)
  /\ [][attendance' # attendance
          => /\ pending = 1
             /\ Len(attendance') = Len(attendance) + 1
             /\ SubSeq(attendance', 1, Len(attendance)) = attendance
             /\ attendance'[Len(attendance')].timestamp = scanAttempts]_vars

\* Two scans matched one after the other and the log holds them in order.
C26_Witness ==
  /\ Len(attendance) = 2
  /\ attendance[1].id = 1
  /\ attendance[2].id = 2
  /\ attendance[1].timestamp < attendance[2].timestamp

\* C27: when getUserMedia resolves for the mounted run the stream is
\* installed, no error and no permission-denied flag is set, and capture()
\* in that state returns an image.
C27_SuccessThenCapture ==
  [][\A i \in DOMAIN effects :
       (/\ effects[i].pc = "pending"
        /\ effects[i].isMounted
        /\ effects'[i] # effects[i]
        /\ nextStream' # nextStream)
       => /\ stream' = effects'[i].currentStream
          /\ stream' # NoStream
          /\ error' = ""
          /\ ~permissionDenied'
          /\ \A ctxOk \in BOOLEAN : (Capture(ctxOk) = "image")']_vars

\* C27 (amended): the same, where capture() returns an image exactly when
\* the canvas gives a 2d context.
C27_SuccessThenCaptureWithContext ==
  [][\A i \in DOMAIN effects :
       (/\ effects[i].pc = "pending"
        /\ effects[i].isMounted
        /\ effects'[i] # effects[i]
        /\ nextStream' # nextStream)
       => /\ stream' = effects'[i].currentStream
          /\ stream' # NoStream
          /\ error' = ""
          /\ ~permissionDenied'
          /\ (Capture(TRUE) = "image")'
          /\ (Capture(FALSE) = "null")']_vars

\* A refused attempt was retried, the stream was installed with the error
\* gone, and capture() returned an image.
C27_Witness ==
  /\ Len(effects) = 2
  /\ effects[1].pc = "failed"
  /\ effects[2].pc = "installed"
  /\ stream = effects[2].currentStream
  /\ error = ""
  /\ ~permissionDenied
  /\ lastCapture.called
  /\ lastCapture.hadStream
  /\ lastCapture.result = "image"

\* C28: while the session's run has failed there is no stream, a failed run
\* stays failed, no run requests a further profile, and a new acquisition
\* starts only on a step where active goes from false to true or
\* retryTrigger is incremented.
C28_FailureTerminal ==
  /\ []((camMounted /\ CurrentEffect.pc = "failed")
          => (stream = NoStream /\ liveStreams = {} /\ error # ""))
  /\ [][/\ \A i \in DOMAIN effects :
             effects[i].pc = "failed"
             => (effects'[i].pc = "failed"
                 /\ effects'[i].currentStream = NoStream)
        /\ (camMounted /\ CurrentEffect.pc = "failed")
           => \A i \in DOMAIN effects :
                effects'[i].profile = effects[i].profile
        /\ (Len(effects') > Len(effects)
              /\ effects'[Len(effects')].pc = "pending")
           => \/ (~active /\ active')
              \/ retryTrigger' = retryTrigger + 1]_vars

\* C29: a capture() call leaves active, stream, error, permissionDenied and
\* retryTrigger (and the runs and the open device streams) as they were,
\* whether it returns an image or null.
C29_CaptureReadOnly ==
  [][lastCapture' # lastCapture
       => /\ lastCapture'.called
          /\ UNCHANGED <<active, stream, error, permissionDenied,
                         retryTrigger, effects, liveStreams, camMounted>>]_vars

\* capture() returned an image and the session is still healthy.
C29_Witness ==
  /\ lastCapture.called
  /\ lastCapture.result = "image"
  /\ active
  /\ stream # NoStream
  /\ stream \in liveStreams
  /\ CurrentEffect.pc = "installed"
  /\ retryTrigger = 0

\* C30: a teardown of a session that holds no stream stops no stream and
\* leaves the session without one; and running any run's cleanup a second
\* time changes nothing the first did not.
C30_TeardownIdempotent ==
  /\ [](\A i \in DOMAIN effects :
          LET once == Cleanup(effects[i])
              twice == Cleanup(once.effect)
          IN /\ twice.effect = once.effect
             /\ twice.stream = once.stream
             /\ once.stream = NoStream
             /\ (liveStreams \ once.stopped) \ twice.stopped
                  = liveStreams \ once.stopped)
  /\ [][(/\ stream = NoStream
         /\ \E i \in DOMAIN effects :
              effects[i].isMounted /\ ~effects'[i].isMounted)
          => (liveStreams' = liveStreams /\ stream' = NoStream)]_vars

\* The session was deactivated (stream released) and then discarded: the
\* second teardown ran on a closure that still held the released stream.
C30_Witness ==
  /\ ~camMounted
  /\ Len(effects) = 2
  /\ effects[1].pc = "installed"
  /\ ~effects[2].act
  /\ effects[2].capturedStream # NoStream
  /\ ~effects[2].isMounted
  /\ liveStreams = {}
  /\ stream = NoStream

\* C31: every record in the attendance log has type CHECK_IN, also when the
\* log already holds a record of the same employee.
C31_AlwaysCheckIn ==
  \A k \in DOMAIN attendance : attendance[k].type = "CHECK_IN"

\* The same employee was recognized twice: two check-in records.
C31_Witness ==
  /\ Len(attendance) = 2
  /\ attendance[1].employeeId = attendance[2].employeeId
  /\ attendance[1].type = "CHECK_IN"
  /\ attendance[2].type = "CHECK_IN"

\* C32: an accepted scan whose capture() gave no image ends at once as a
\* capture failure, with an empty gallery as with a non-empty one, and the
\* "No employees registered yet." result appears only on a scan that
\* captured an image.
C32_CaptureBeforeGallery ==
  [][scanCaptures' > scanCaptures
       => /\ scanImage' = "null"
             => /\ lastExit' = "capture"
                /\ lastResult'.present
                /\ ~lastResult'.success
                /\ lastResult'.message # <<"No employees registered yet.">>
                /\ ~isProcessing'
                /\ svcCalls' = svcCalls
          /\ lastResult'.message = <<"No employees registered yet.">>
             => (scanImage' = "image" /\ Len(employees) = 0)]_vars

\* A scan without image and with an empty gallery ended as capture failure.
C32_Witness ==
  /\ Len(employees) = 0
  /\ scanImage = "null"
  /\ lastExit = "capture"
  /\ lastResult.present
  /\ lastResult.message = <<"Error processing scan.">>
  /\ svcCalls = 0

\* C33: the streams the device handed out and whose tracks were not stopped
\* are never more than one; when no run of the session waits for the device
\* there is one exactly when the session is active with a stream installed,
\* and that stream is the open one.
C33_NoStreamLeak ==
  /\ Cardinality(liveStreams) <= 1
  /\ liveStreams \subseteq 1..(nextStream - 1)
  /\ (\A i \in DOMAIN effects : effects[i].pc # "pending")
     => /\ Cardinality(liveStreams) = 1
           <=> (camMounted /\ active /\ stream # NoStream)
        /\ stream # NoStream => liveStreams = {stream}

\* Three runs settled (one of them late, its stream released on arrival);
\* the device handed out two streams and only the installed one is open.
C33_Witness ==
  /\ Len(effects) = 3
  /\ \A i \in DOMAIN effects : effects[i].pc # "pending"
  /\ \E i \in DOMAIN effects : effects[i].pc = "released"
  /\ effects[3].pc = "installed"
  /\ nextStream = 3
  /\ liveStreams = {stream}

\* C34: an answer with match = true whose employeeId or name is missing or
\* empty gives the not-recognized result and writes no record.
C34_IncompleteMatch ==
  [][(/\ pending' < pending
      /\ lastResponse'.kind = "return"
      /\ lastResponse'.res.match
      /\ \/ lastResponse'.res.employeeId \in {Absent, ""}
         \/ lastResponse'.res.name \in {Absent, ""})
       => /\ lastResult'.present
          /\ ~lastResult'.success
          /\ lastResult'.message =
               <<"Face not recognized. Please try closer or check lighting.">>
          /\ attendance' = attendance]_vars

\* The model answered match = true with an id but without a name.
C34_Witness ==
  /\ lastResponse.kind = "return"
  /\ lastResponse.res.match
  /\ lastResponse.res.employeeId = "E1"
  /\ lastResponse.res.name = Absent
  /\ lastExit = "nomatch"
  /\ ~lastResult.success
  /\ attendance = <<>>

\* C35: an accepted scan sets the result to null when it starts, so no
\* result is shown while busy, and whenever busy is false after an accepted
\* scan a result is set.
C35_ResultAfterScan ==
  /\ [](isProcessing => ~lastResult.present)
  /\ []((scanCaptures > 0 /\ ~isProcessing) => lastResult.present)
  /\ [][(scanCaptures' > scanCaptures /\ isProcessing')
          => lastResult' = NoResult]_vars

\* A second scan is in flight: the first scan's result was cleared.
C35_Witness ==
  /\ scanCaptures = 2
  /\ isProcessing
  /\ pending = 1
  /\ lastExit \in {"match", "nomatch", "failure"}
  /\ ~lastResult.present

\* C36: when an accepted scan starts, the roster the Scanner holds equals
\* the roster in the store.
C36_GalleryFresh ==
  [][scanCaptures' > scanCaptures => employees = storeEmployees]_vars

\* C37: a run that waits for the device while the session is active leads,
\* unless it is superseded by a toggle, a retry or the discard of the
\* component, to the healthy state (stream installed, no error) or to a
\* failed state (error set, no stream).
C37_AcquisitionSettles ==
  \A n \in 1..MaxEffects :
    (/\ Len(effects) = n
     /\ camMounted
     /\ active
     /\ effects[n].pc = "pending")
    ~> (\/ Len(effects) # n
        \/ ~camMounted
        \/ (stream # NoStream /\ error = "")
        \/ (error # "" /\ stream = NoStream))

\* The only run was rejected on all three profiles and the session failed.
C37_Witness ==
  /\ Len(effects) = 1
  /\ camMounted
  /\ active
  /\ effects[1].pc = "failed"
  /\ effects[1].profile = 3
  /\ error = "Could not initialize camera with any supported settings."
  /\ stream = NoStream

====
